---- MODULE Spec2Model ----
(***************************************************************************)
(* Comparable selection (backend/services/comparable_selector.py) and      *)
(* price estimation (backend/services/price_estimator.py) of the home      *)
(* pricing service, as a state machine over one request.                    *)
(*                                                                          *)
(* Numbers.  The selector's floats are modelled by exact rationals <<n, d>>  *)
(* in lowest terms (d > 0).  The estimator's floats carry, next to the      *)
(* rational they stand for, how far IEEE-754 rounding can have moved them:  *)
(* "exact" (the double is the rational), "rounded" (the double nearest to   *)
(* it) or "approx" (a double within a few units in the last place of it).   *)
(* Where the outcome of int() or round() depends on the direction of that   *)
(* error, both outcomes are possible in the model.  Every explicit          *)
(* conversion of the code is modelled by what it does: int() truncates      *)
(* toward zero, round(x, k) rounds to k decimals, math.sqrt and math.exp    *)
(* are computed digit by digit in fixed point.  A Python dict is a          *)
(* function whose DOMAIN is its key set.                                    *)
(***************************************************************************)
EXTENDS Integers, Sequences, FiniteSets, TLC

(***************************************************************************)
(* Exact rational arithmetic                                                *)
(***************************************************************************)
Abs(x) == IF x < 0 THEN -x ELSE x

\* Body applied to a value computed once (a local variable of the code)
Bind(value, Body(_)) == Body(value)

RECURSIVE GCD(_, _)
GCD(a, b) == IF b = 0 THEN a ELSE GCD(b, a % b)

\* The rational n/d in lowest terms with a positive denominator.
Q(n, d) ==
    Bind(GCD(Abs(n), Abs(d)), LAMBDA g :
        IF d < 0 THEN <<-(n \div g), -(d \div g)>> ELSE <<n \div g, d \div g>>)

QInt(i) == <<i, 1>>

QAdd(a, b) ==
    Bind(GCD(a[2], b[2]), LAMBDA g :
        Q(a[1] * (b[2] \div g) + b[1] * (a[2] \div g), (a[2] \div g) * b[2]))

QNeg(a) == <<-a[1], a[2]>>

QSub(a, b) == QAdd(a, QNeg(b))

QMul(a, b) ==
    Bind(GCD(Abs(a[1]), b[2]), LAMBDA g1 :
    Bind(GCD(Abs(b[1]), a[2]), LAMBDA g2 :
        Q((a[1] \div g1) * (b[1] \div g2), (a[2] \div g2) * (b[2] \div g1))))

\* a / b for b # 0
QDiv(a, b) == QMul(a, Q(b[2], b[1]))

QLt(a, b) ==
    Bind(GCD(a[2], b[2]), LAMBDA g : a[1] * (b[2] \div g) < b[1] * (a[2] \div g))

QLe(a, b) == ~QLt(b, a)

QMin(a, b) == IF QLt(b, a) THEN b ELSE a

QMax(a, b) == IF QLt(a, b) THEN b ELSE a

QAbs(a) == <<Abs(a[1]), a[2]>>

RECURSIVE QSum(_)
QSum(s) == IF s = <<>> THEN QInt(0) ELSE QAdd(Head(s), QSum(Tail(s)))

\* int(x): truncation toward zero
IntTrunc(a) == IF a[1] >= 0 THEN a[1] \div a[2] ELSE -((-a[1]) \div a[2])

\* round(x, k) for scale = 10^k, as an integer count of 1/scale units
\* (ties to even, as Python rounds an exactly representable tie)
RoundTo(a, scale) ==
    Bind(QMul(QAbs(a), QInt(scale)), LAMBDA y :
        LET f  == y[1] \div y[2]
            r2 == 2 * (y[1] % y[2])
            up == r2 > y[2] \/ (r2 = y[2] /\ f % 2 = 1)
            m  == IF up THEN f + 1 ELSE f
        IN  IF a[1] < 0 THEN -m ELSE m)

(***************************************************************************)
(* math.sqrt by the digit-by-digit method on the decimal expansion of N/D  *)
(***************************************************************************)
\* base-100 digits of a natural number, most significant first
RECURSIVE Pairs(_)
Pairs(i) == IF i < 100 THEN <<i>> ELSE Append(Pairs(i \div 100), i % 100)

\* largest decimal digit x with (20*root + x)*x <= cur
RECURSIVE SqrtDigit(_, _, _)
SqrtDigit(root, cur, x) ==
    IF x = 0 \/ (20 * root + x) * x <= cur THEN x ELSE SqrtDigit(root, cur, x - 1)

SqrtStep(st, pair) ==
    Bind(st.rem * 100 + pair, LAMBDA cur :
    Bind(SqrtDigit(st.root, cur, 9), LAMBDA x :
        [root |-> 10 * st.root + x, rem |-> cur - (20 * st.root + x) * x,
         frac |-> st.frac, last |-> x]))

RECURSIVE SqrtInt(_, _)
SqrtInt(st, ps) ==
    IF ps = <<>> THEN st ELSE SqrtInt(SqrtStep(st, Head(ps)), Tail(ps))

\* k more decimals: the next base-100 digit of the fraction by long division
RECURSIVE SqrtFrac(_, _, _)
SqrtFrac(st, D, k) ==
    IF k = 0 THEN st
    ELSE SqrtFrac([SqrtStep(st, (st.frac * 100) \div D)
                      EXCEPT !.frac = (st.frac * 100) % D], D, k - 1)

\* [root |-> floor(sqrt(N/D) * 10^k), rem, frac, last]; the root is exact iff
\* rem = 0 and frac = 0
Sqrt(a, k) ==
    SqrtFrac(SqrtInt([root |-> 0, rem |-> 0, frac |-> a[1] % a[2], last |-> 0],
                     Pairs(a[1] \div a[2])), a[2], k)

(***************************************************************************)
(* math.exp(-x) in fixed point with eight decimals                          *)
(***************************************************************************)
\* a * b / 10^8 for 0 <= a, b <= 10^8
MulFx(a, b) ==
    LET a1 == a \div 10000
        a0 == a % 10000
        b1 == b \div 10000
        b0 == b % 10000
    IN  a1 * b1 + (a1 * b0 + a0 * b1 + (a0 * b0) \div 10000) \div 10000

\* 10^8 * e^(-k) for k = 0 .. 10
ExpTable ==
    <<100000000, 36787944, 13533528, 4978707, 1831564, 673795, 247875, 91188,
      33546, 12341, 4540>>

\* the Taylor series of e^(-f), 0 <= f < 1: term j is f^j / j!, signs alternate
RECURSIVE ExpSeries(_, _, _, _)
ExpSeries(f, term, j, acc) ==
    IF term = 0 THEN acc
    ELSE Bind(MulFx(term, f) \div j, LAMBDA next :
             ExpSeries(f, next, j + 1, IF j % 2 = 1 THEN acc - next ELSE acc + next))

\* 10^8 * e^(-x8 / 10^8) for 0 <= x8 < 11 * 10^8
ExpNeg(x8) ==
    MulFx(ExpTable[(x8 \div 100000000) + 1],
          ExpSeries(x8 % 100000000, 100000000, 1, 100000000))

(***************************************************************************)
(* Python dicts and lists                                                   *)
(***************************************************************************)
EmptyDict == <<>>

\* Python's None
None == "None"

\* d.get(key, default)
Get(d, key, default) == IF key \in DOMAIN d THEN d[key] ELSE default

\* d[key] = value for every key of upd, on a dict d
Update(d, upd) == upd @@ d

\* the last k elements of a list instead of the first
SliceFromEnd(lst, k) ==
    LET n == Len(lst)
        stop == IF k >= 0 THEN (IF k < n THEN k ELSE n)
                ELSE (IF n + k > 0 THEN n + k ELSE 0)
    IN  SubSeq(lst, n - stop + 1, n)

\* lst[:k], for a negative k too
SliceTo(lst, k) ==
    LET n == Len(lst)
        stop == IF k >= 0 THEN (IF k < n THEN k ELSE n)
                ELSE (IF n + k > 0 THEN n + k ELSE 0)
    IN  SubSeq(lst, 1, stop)

Truthy(b) == b = TRUE

(***************************************************************************)
(* Python floats                                                            *)
(***************************************************************************)
\* A float is carried by the real number q it stands for and by how it
\* relates to q: "exact" (the float is q), "rounded" (the float is the double
\* nearest to q: a literal, or one correctly rounded operation on exact
\* operands), "approx" (the float is within a few units in the last place of
\* q, on either side).
Float(q, err) == [q |-> q, err |-> err]

RECURSIVE IsPowerOfTwo(_)
IsPowerOfTwo(d) == d = 1 \/ (d > 1 /\ d % 2 = 0 /\ IsPowerOfTwo(d \div 2))

\* q is a double: a dyadic rational (the numerators here are far below 2^53)
Representable(q) == IsPowerOfTwo(q[2])

\* float(q) for a literal, an int, an exactly computed rational
Nearest(q) == Float(q, IF Representable(q) THEN "exact" ELSE "rounded")

FromInt(i) == Float(QInt(i), "exact")

Zero == FromInt(0)

\* a correctly rounded operation on a and b whose real result is q
Operation(q, a, b) ==
    IF a.err = "exact" /\ b.err = "exact" THEN Nearest(q) ELSE Float(q, "approx")

\* b is a power of two: multiplying and dividing by b round nothing
Scaling(b) ==
    b.err = "exact" /\ IsPowerOfTwo(Abs(b.q[1])) /\ IsPowerOfTwo(b.q[2])

FAdd(a, b) ==
    IF b = Zero THEN a ELSE IF a = Zero THEN b ELSE Operation(QAdd(a.q, b.q), a, b)

FSub(a, b) == IF b = Zero THEN a ELSE Operation(QSub(a.q, b.q), a, b)

FMul(a, b) ==
    IF a = Zero \/ b = Zero THEN Zero
    ELSE IF Scaling(b) THEN Float(QMul(a.q, b.q), a.err)
    ELSE IF Scaling(a) THEN Float(QMul(a.q, b.q), b.err)
    ELSE Operation(QMul(a.q, b.q), a, b)

\* a / b for b # 0
FDiv(a, b) ==
    IF a = Zero THEN Zero
    ELSE IF Scaling(b) THEN Float(QDiv(a.q, b.q), a.err)
    ELSE Operation(QDiv(a.q, b.q), a, b)

\* sum(xs): 0 + xs[1] + xs[2] + ...
RECURSIVE FSum(_)
FSum(xs) ==
    IF xs = <<>> THEN Zero ELSE FAdd(FSum(SubSeq(xs, 1, Len(xs) - 1)), xs[Len(xs)])

\* statistics.mean(xs): the mean of the values of the floats, rounded once
FMean(xs) ==
    Bind(QDiv(QSum([i \in 1..Len(xs) |-> xs[i].q]), QInt(Len(xs))), LAMBDA q :
        IF \A i \in 1..Len(xs) : xs[i].err = "exact" THEN Nearest(q)
        ELSE Float(q, "approx"))

\* int(x): truncation toward zero.  A float that approximates an integer n
\* may lie on either side of it.
IntOutcomes(x) ==
    IF x.err # "approx" \/ x.q[2] # 1 \/ x.q[1] = 0 THEN {IntTrunc(x.q)}
    ELSE IF x.q[1] > 0 THEN {x.q[1] - 1, x.q[1]}
    ELSE {x.q[1], x.q[1] + 1}

\* round(x, k) for scale = 10^k, in units of 1/scale.  A float that is not
\* exactly half-way between two results may lie on either side of the tie.
RoundOutcomes(x, scale) ==
    Bind(QMul(QAbs(x.q), QInt(scale)), LAMBDA y :
        IF x.err # "exact" /\ 2 * (y[1] % y[2]) = y[2]
        THEN IF x.q[1] < 0 THEN {-(y[1] \div y[2]), -(y[1] \div y[2]) - 1}
             ELSE {y[1] \div y[2], (y[1] \div y[2]) + 1}
        ELSE {RoundTo(x.q, scale)})

(***************************************************************************)
(* ComparableSelector                                                       *)
(***************************************************************************)
FeatureNames ==
    {"latitude", "longitude", "sqft", "bedrooms", "bathrooms", "year_built",
     "days_since_sale", "has_pool"}

\* FEATURE_WEIGHTS, in hundredths
FEATURE_WEIGHTS ==
    [latitude |-> 15, longitude |-> 15, sqft |-> 20, bedrooms |-> 12,
     bathrooms |-> 8, year_built |-> 10, days_since_sale |-> 10, has_pool |-> 10]

\* dateutil's parser.parse on the sale dates of the model: the day number of
\* a date it can parse (days since 2025-01-01), -1 for a string it rejects
ParseDate(s) ==
    CASE s = "2025-08-24" -> 235
      [] s = "2025-09-08" -> 250
      [] OTHER -> -1

\* days_since_sale with the default 90 for a record without a sale date too
DaysSinceSaleOrDefault(property_data, now) ==
    LET days_since_sale == Get(property_data, "days_since_sale", 0)
    IN  IF days_since_sale # 0 THEN days_since_sale
        ELSE IF "sale_date" \in DOMAIN property_data
                  /\ ParseDate(property_data["sale_date"]) >= 0
             THEN now.day - ParseDate(property_data["sale_date"])
             ELSE 90

\* days_since_sale computed from the sale date whenever the record has one,
\* an explicit value or not
DaysSinceSaleByDate(property_data, now) ==
    IF "sale_date" \in DOMAIN property_data
    THEN IF ParseDate(property_data["sale_date"]) >= 0
         THEN now.day - ParseDate(property_data["sale_date"])
         ELSE 90
    ELSE Get(property_data, "days_since_sale", 0)

\* days_since_sale of _extract_features
DaysSinceSale(property_data, now) ==
    LET days_since_sale == Get(property_data, "days_since_sale", 0)
    IN  IF days_since_sale = 0 /\ "sale_date" \in DOMAIN property_data
        THEN IF ParseDate(property_data["sale_date"]) >= 0
             THEN now.day - ParseDate(property_data["sale_date"])
             ELSE 90
        ELSE days_since_sale

\* the feature vector with 0 for a missing year_built, as for the other
\* numeric attributes
ExtractWithZeroYear(property_data, now) ==
    [latitude        |-> Get(property_data, "latitude", QInt(0)),
     longitude       |-> Get(property_data, "longitude", QInt(0)),
     sqft            |-> QInt(Get(property_data, "sqft",
                                  Get(property_data, "square_footage", 0))),
     bedrooms        |-> QInt(Get(property_data, "bedrooms", 0)),
     bathrooms       |-> QInt(Get(property_data, "bathrooms", 0)),
     year_built      |-> QInt(Get(property_data, "year_built", 0)),
     has_pool        |-> IF Truthy(Get(property_data, "has_private_pool", FALSE))
                            \/ Truthy(Get(property_data, "has_community_pool", FALSE))
                         THEN QInt(1) ELSE QInt(0),
     days_since_sale |-> QInt(DaysSinceSale(property_data, now))]

\* The feature vector: every value is a float, carried by the rational it
\* stands for.  Coordinates are rationals in the records, the other
\* attributes integers.
extract_features(property_data, now) ==
    [latitude        |-> Get(property_data, "latitude", QInt(0)),
     longitude       |-> Get(property_data, "longitude", QInt(0)),
     sqft            |-> QInt(Get(property_data, "sqft",
                                  Get(property_data, "square_footage", 0))),
     bedrooms        |-> QInt(Get(property_data, "bedrooms", 0)),
     bathrooms       |-> QInt(Get(property_data, "bathrooms", 0)),
     year_built      |-> QInt(Get(property_data, "year_built", now.year)),
     has_pool        |-> IF Truthy(Get(property_data, "has_private_pool", FALSE))
                            \/ Truthy(Get(property_data, "has_community_pool", FALSE))
                         THEN QInt(1) ELSE QInt(0),
     days_since_sale |-> QInt(DaysSinceSale(property_data, now))]

\* np.mean(values)
Mean(values) == QDiv(QSum(values), QInt(Len(values)))

\* np.std(values) squared: the population variance
Variance(values) ==
    Bind(Mean(values), LAMBDA m :
        QDiv(QSum([i \in 1..Len(values) |->
                      Bind(QSub(values[i], m), LAMBDA dev : QMul(dev, dev))]),
             QInt(Len(values))))

\* The standard deviation is carried by its square (std = sqrt(var)), so
\* "std == 0" is "var = 0" and "std = 1.0" is "var = 1".
StdFloor(var) == IF var = QInt(0) THEN QInt(1) ELSE var

\* What np.std returns for values that are all the same number when np.mean
\* missed that number by a rounding error: the size of the error, a positive
\* number below every rational of the model (carried, squared, by this pair).
Residue == <<0, 0>>

\* The features np.std can return a residue for.  The sum of three or more
\* equal values that are no doubles is rounded, so that the mean need not be
\* the value; one or two values, and values that are doubles, give exactly 0.
Unsettled(all_features) ==
    IF Len(all_features) < 3 THEN {}
    ELSE {feature \in DOMAIN all_features[1] :
             /\ \A i \in 1..Len(all_features) :
                   all_features[i][feature] = all_features[1][feature]
             /\ ~Representable(all_features[1][feature])}

\* FeatureStats, with np.std a residue for the features in residues
calculate_feature_stats(all_features, residues) ==
    IF all_features = <<>> THEN EmptyDict
    ELSE [feature \in DOMAIN all_features[1] |->
            Bind([i \in 1..Len(all_features) |-> all_features[i][feature]],
                 LAMBDA values :
                    [mean |-> Mean(values),
                     var  |-> StdFloor(IF feature \in residues THEN Residue
                                       ELSE Variance(values))])]

\* (value - mean) / std, kept as the deviation and the square of the divisor.
\* Divided by a residue, equal values still give equal quotients.
normalize_features(features, stats) ==
    [feature \in DOMAIN features |->
        IF feature \in DOMAIN stats
        THEN [dev |-> QSub(features[feature], stats[feature].mean),
              var |-> stats[feature].var]
        ELSE [dev |-> features[feature], var |-> QInt(1)]]

\* A distance beyond every rational of the model: what a difference divided
\* by a residue contributes.
Beyond == <<1, 0>>

\* The square of the weighted Euclidean distance; the distance itself is its
\* square root, taken where the code uses the number (Sqrt).
RECURSIVE DistanceSquared(_, _, _)
DistanceSquared(features1, features2, todo) ==
    IF todo = {} THEN QInt(0)
    ELSE Bind(CHOOSE f \in todo : TRUE, LAMBDA feature :
         Bind(DistanceSquared(features1, features2, todo \ {feature}), LAMBDA rest :
             IF feature \in DOMAIN features2 /\ feature \in DOMAIN FEATURE_WEIGHTS
             THEN Bind(QSub(features1[feature].dev, features2[feature].dev), LAMBDA diff :
                      IF features1[feature].var = Residue
                      THEN (IF diff = QInt(0) THEN rest ELSE Beyond)
                      ELSE QAdd(rest, QMul(Q(FEATURE_WEIGHTS[feature], 100),
                                           QDiv(QMul(diff, diff), features1[feature].var))))
             ELSE rest))

calculate_weighted_euclidean_distance(features1, features2) ==
    DistanceSquared(features1, features2, DOMAIN features1)

\* round(distance, 4), in units of 1/10000
RoundedDistance(distance_squared) ==
    Bind(Sqrt(distance_squared, 5), LAMBDA s :
        LET r4     == s.root \div 10
            sticky == s.rem # 0 \/ s.frac # 0
            up     == s.last > 5 \/ (s.last = 5 /\ (sticky \/ r4 % 2 = 1))
        IN  IF up THEN r4 + 1 ELSE r4)

\* sqrt(distance_squared) with eight decimals, for a distance below 10: five
\* digits by Sqrt, three more from the remainder (rem / (2 * root))
Distance8(distance_squared) ==
    Bind(Sqrt(distance_squared, 5), LAMBDA s :
        IF s.root = 0 THEN 0 ELSE s.root * 1000 + (s.rem * 500) \div s.root)

\* 100 - 100 * math.exp(-distance): a score that grows with the distance
DissimilarityScore(distance_squared) ==
    IF QLe(QInt(100), distance_squared) THEN 10000
    ELSE 10000 - (ExpNeg(Distance8(distance_squared)) + 5000) \div 10000

\* round(100 * math.exp(-distance), 2), in hundredths; 100 * e^(-10) < 0.005
distance_to_similarity(distance_squared) ==
    IF QLe(QInt(100), distance_squared) THEN 0
    ELSE (ExpNeg(Distance8(distance_squared)) + 5000) \div 10000

\* the great-circle distance in miles between two points, left uninterpreted
calculate_haversine_distance(lat1, lon1, lat2, lon2) == <<lat1, lon1, lat2, lon2>>

get_score_breakdown(subject_features, comp_features) ==
    [distance_miles  |-> calculate_haversine_distance(
                             subject_features.latitude, subject_features.longitude,
                             comp_features.latitude, comp_features.longitude),
     sqft_diff       |-> QAbs(QSub(subject_features.sqft, comp_features.sqft)),
     sqft_pct_diff   |-> IF QLt(QInt(0), subject_features.sqft)
                         THEN RoundTo(QMul(QDiv(QAbs(QSub(subject_features.sqft,
                                                          comp_features.sqft)),
                                                subject_features.sqft),
                                           QInt(100)), 10)
                         ELSE 0,
     bedrooms_diff   |-> QAbs(QSub(subject_features.bedrooms, comp_features.bedrooms)),
     bathrooms_diff  |-> QAbs(QSub(subject_features.bathrooms, comp_features.bathrooms)),
     age_diff_years  |-> QAbs(QSub(subject_features.year_built, comp_features.year_built)),
     days_since_sale |-> comp_features.days_since_sale,
     has_pool_match  |-> IF subject_features.has_pool = comp_features.has_pool THEN 1 ELSE 0,
     knn_method      |-> "Weighted Euclidean Distance"]

\* a < b for two distances: Beyond is above every rational, and two distances
\* that are Beyond are the same float (the huge term absorbs the others)
Nearer(a, b) == a # Beyond /\ (b = Beyond \/ QLt(a, b))

\* an insertion that puts x before the elements at its own distance
RECURSIVE InsertBeforeEqual(_, _)
InsertBeforeEqual(sorted, x) ==
    IF sorted = <<>> THEN <<x>>
    ELSE IF ~Nearer(Head(sorted).distance, x.distance) THEN <<x>> \o sorted
    ELSE <<Head(sorted)>> \o InsertBeforeEqual(Tail(sorted), x)

\* list.sort(key = distance): a stable sort, ascending
RECURSIVE InsertByDistance(_, _)
InsertByDistance(sorted, x) ==
    IF sorted = <<>> THEN <<x>>
    ELSE IF Nearer(x.distance, Head(sorted).distance) THEN <<x>> \o sorted
    ELSE <<Head(sorted)>> \o InsertByDistance(Tail(sorted), x)

\* the list left in the order of the pool
KeepPoolOrder(distances) == distances

RECURSIVE SortByDistance(_)
SortByDistance(distances) ==
    IF distances = <<>> THEN <<>>
    ELSE InsertByDistance(SortByDistance(SubSeq(distances, 1, Len(distances) - 1)),
                          distances[Len(distances)])

\* the lines _extract_features prints for one record: the feature vector,
\* and before it the exception of a sale date that does not parse
Prints(property_data) ==
    IF /\ Get(property_data, "days_since_sale", 0) = 0
       /\ "sale_date" \in DOMAIN property_data
       /\ ParseDate(property_data["sale_date"]) < 0
    THEN 2 ELSE 1

RECURSIVE PrintsOf(_)
PrintsOf(records) ==
    IF records = <<>> THEN 0 ELSE Prints(Head(records)) + PrintsOf(Tail(records))

\* select_top_comparables from the extraction to the sort, np.std leaving a
\* residue for the features in residues: the features, their statistics, the
\* normalized vectors and the (index, distance) pairs in ascending order
RankWith(subject_features, comparable_features, residues) ==
    Bind(calculate_feature_stats(comparable_features, residues), LAMBDA feature_stats :
    Bind(normalize_features(subject_features, feature_stats), LAMBDA subject_normalized :
    Bind([i \in 1..Len(comparable_features) |->
            normalize_features(comparable_features[i], feature_stats)],
         LAMBDA comparable_normalized :
        [subject_features      |-> subject_features,
         comparable_features   |-> comparable_features,
         feature_stats         |-> feature_stats,
         subject_normalized    |-> subject_normalized,
         comparable_normalized |-> comparable_normalized,
         distances             |->
            SortByDistance([i \in 1..Len(comparable_features) |->
                [idx |-> i,
                 distance |-> calculate_weighted_euclidean_distance(
                                  subject_normalized, comparable_normalized[i])]])])))

\* The rankings the build can produce: every local of select_top_comparables
\* that does not depend on num_comps.  None for an empty pool, where the call
\* returns before computing any.
RankCandidates(subject_home, comparable_sales, now) ==
    IF comparable_sales = <<>> THEN {None}
    ELSE
    Bind(extract_features(subject_home, now), LAMBDA subject_features :
    Bind([i \in 1..Len(comparable_sales) |-> extract_features(comparable_sales[i], now)],
         LAMBDA comparable_features :
        {RankWith(subject_features, comparable_features, residues) :
            residues \in SUBSET Unsettled(comparable_features)}))

\* the k nearest of a ranking, each with the fields the selection adds
KNearest(ranked, comparable_sales, num_comps) ==
    Bind(SliceTo(ranked.distances, num_comps), LAMBDA k_nearest :
        [j \in 1..Len(k_nearest) |->
            LET idx == k_nearest[j].idx
                distance == k_nearest[j].distance
            IN  Update(comparable_sales[idx],
                    [similarity_score |-> Q(distance_to_similarity(distance), 100),
                     knn_distance     |-> IF distance = Beyond THEN Beyond
                                          ELSE Q(RoundedDistance(distance), 10000),
                     distance_miles   |-> calculate_haversine_distance(
                                              ranked.subject_features.latitude,
                                              ranked.subject_features.longitude,
                                              ranked.comparable_features[idx].latitude,
                                              ranked.comparable_features[idx].longitude),
                     score_breakdown  |-> get_score_breakdown(
                                              ranked.subject_features,
                                              ranked.comparable_features[idx])])])

\* the pool after a result loop that annotates the records of the pool
\* themselves instead of copies
PoolAnnotated(ranked, comparable_sales, num_comps) ==
    Bind(SliceTo(ranked.distances, num_comps), LAMBDA k_nearest :
    Bind(KNearest(ranked, comparable_sales, num_comps), LAMBDA result :
        [i \in 1..Len(comparable_sales) |->
            IF \E j \in 1..Len(k_nearest) : k_nearest[j].idx = i
            THEN result[CHOOSE j \in 1..Len(k_nearest) : k_nearest[j].idx = i]
            ELSE comparable_sales[i]]))

\* The caller's list after the result loop.  comp is a copy of the record of
\* the pool, so the four keys the loop assigns go to the copy and the list
\* and its records are what they were.
PoolAfterSelection(ranked, comparable_sales, num_comps) == comparable_sales

\* the body of select_top_comparables after the empty-pool return: the list
\* returned, the locals of the call, the number of lines printed on the way
\* and the caller's list as the call leaves it
SelectKNearest(subject_home, comparable_sales, num_comps, ranked) ==
    [result  |-> KNearest(ranked, comparable_sales, num_comps),
     ranking |-> ranked,
     printed |-> Prints(subject_home) + PrintsOf(comparable_sales),
     comparable_sales |-> PoolAfterSelection(ranked, comparable_sales, num_comps)]

\* the empty-pool return placed after the extraction of the subject's features
SelectAfterExtraction(subject_home, comparable_sales, num_comps, ranked) ==
    IF comparable_sales = <<>>
    THEN [result |-> <<>>, ranking |-> None, printed |-> Prints(subject_home),
          comparable_sales |-> comparable_sales]
    ELSE SelectKNearest(subject_home, comparable_sales, num_comps, ranked)

\* select_top_comparables, its ranking being ranked
select_top_comparables(subject_home, comparable_sales, num_comps, ranked) ==
    IF comparable_sales = <<>>
    THEN [result |-> <<>>, ranking |-> None, printed |-> 0,
          comparable_sales |-> comparable_sales]
    ELSE SelectKNearest(subject_home, comparable_sales, num_comps, ranked)

(***************************************************************************)
(* PriceEstimator                                                           *)
(***************************************************************************)
\* statistics.mean of a list of rationals
QMean(qs) == QDiv(QSum(qs), QInt(Len(qs)))

\* the size of a home read from 'square_footage' first
SquareFootageOrOne(home) == Get(home, "square_footage", Get(home, "sqft", 1))

\* the size of a home with the default 0
SqftOrZero(home) == Get(home, "sqft", Get(home, "square_footage", 0))

\* comp.get('sqft', comp.get('square_footage', 1))
SqftOrOne(home) == Get(home, "sqft", Get(home, "square_footage", 1))

Usable(comp) == SqftOrOne(comp) > 0 /\ Get(comp, "sale_price", 0) > 0

HasPrice(comp) == Get(comp, "sale_price", 0) > 0

\* the comparable's price for the subject's size: price_per_sqft * subject_sqft
AdjustedPrice(comp, subject_sqft) ==
    FMul(FDiv(FromInt(Get(comp, "sale_price", 0)), FromInt(SqftOrOne(comp))),
         FromInt(subject_sqft))

\* weight = 1.0 / (1.0 + knn_distance)
KnnWeight(comp) ==
    FDiv(FromInt(1), FAdd(FromInt(1), Nearest(Get(comp, "knn_distance", QInt(1)))))

calculate_base_price(subject_home, comparables) ==
    IF comparables = <<>> THEN Zero
    ELSE
    Bind(IF SqftOrOne(subject_home) = 0 THEN 1 ELSE SqftOrOne(subject_home),
         LAMBDA subject_sqft :
    Bind(SelectSeq(comparables, Usable), LAMBDA used :
    Bind([i \in 1..Len(used) |-> AdjustedPrice(used[i], subject_sqft)], LAMBDA prices :
    Bind([i \in 1..Len(used) |-> KnnWeight(used[i])], LAMBDA knn_weights :
    Bind(SelectSeq(comparables, HasPrice), LAMBDA priced :
    Bind(FSum(knn_weights), LAMBDA total_weight :
        IF prices = <<>>
        THEN IF priced = <<>> THEN Zero
             ELSE FMean([i \in 1..Len(priced) |-> FromInt(priced[i].sale_price)])
        ELSE IF total_weight.q = QInt(0) THEN FMean(prices)
        ELSE FDiv(FSum([i \in 1..Len(used) |-> FMul(prices[i], knn_weights[i])]),
                  total_weight)))))))

\* condition_adjustments.get(condition, 0.0)
ConditionBase(condition) ==
    CASE condition = "Excellent" -> Nearest(Q(8, 100))
      [] condition = "Good"      -> Nearest(Q(3, 100))
      [] condition = "Fair"      -> Nearest(Q(0, 100))
      [] condition = "Poor"      -> Nearest(Q(-10, 100))
      [] OTHER                   -> Zero

\* the score taken as it is, not as its distance from the baseline of 70
ConditionFromZero(condition_summary) ==
    Bind(Get(condition_summary, "overall_condition", "Fair"), LAMBDA condition :
    Bind(Nearest(Get(condition_summary, "condition_score", QInt(70))),
         LAMBDA condition_score :
        FAdd(ConditionBase(condition), FDiv(condition_score, FromInt(1000)))))

calculate_condition_adjustment(condition_summary) ==
    Bind(Get(condition_summary, "overall_condition", "Fair"), LAMBDA condition :
    Bind(Nearest(Get(condition_summary, "condition_score", QInt(70))),
         LAMBDA condition_score :
        FAdd(ConditionBase(condition),
             FDiv(FSub(condition_score, FromInt(70)), FromInt(1000)))))

\* sum(1 for c in comparables if c.get(key, False)) / len(comparables)
FlagAverage(comparables, key) ==
    Q(Cardinality({i \in 1..Len(comparables) : Truthy(Get(comparables[i], key, FALSE))}),
      Len(comparables))

\* the 'pool' or 'garage' entry of the adjustments: a dict with that key or none
MajorityAdjustment(subject_home, comparables, key, amount) ==
    Bind(Truthy(Get(subject_home, key, FALSE)), LAMBDA subject_has :
    Bind(FlagAverage(comparables, key), LAMBDA comp_avg :
        IF subject_has /\ QLt(comp_avg, Q(1, 2)) THEN [k \in {key} |-> Nearest(amount)]
        ELSE IF ~subject_has /\ QLt(Q(1, 2), comp_avg)
             THEN [k \in {key} |-> Nearest(QNeg(amount))]
        ELSE EmptyDict))

\* min(0.05, max(-0.05, x))
ClampAge(x) ==
    IF QLt(Q(-5, 100), x.q)
    THEN (IF QLt(x.q, Q(5, 100)) THEN x ELSE Nearest(Q(5, 100)))
    ELSE Nearest(Q(-5, 100))

\* the age entry included from a magnitude of 0.005 on, 0.005 itself included
AgeAdjustmentFromHalfPercent(subject_home, comparables) ==
    Bind(2025 - Get(subject_home, "year_built", 2000), LAMBDA subject_age :
    Bind(FMean([i \in 1..Len(comparables) |->
                   FromInt(2025 - Get(comparables[i], "year_built", 2000))]),
         LAMBDA avg_comp_age :
    Bind(ClampAge(FMul(FDiv(FSub(avg_comp_age, FromInt(subject_age)), FromInt(10)),
                       Nearest(Q(1, 100)))),
         LAMBDA age_adjustment :
        IF QLe(Q(5, 1000), QAbs(age_adjustment.q))
        THEN [k \in {"age"} |-> age_adjustment]
        ELSE EmptyDict)))

AgeAdjustment(subject_home, comparables) ==
    Bind(2025 - Get(subject_home, "year_built", 2000), LAMBDA subject_age :
    Bind(FMean([i \in 1..Len(comparables) |->
                   FromInt(2025 - Get(comparables[i], "year_built", 2000))]),
         LAMBDA avg_comp_age :
    Bind(FSub(avg_comp_age, FromInt(subject_age)), LAMBDA age_diff :
    Bind(ClampAge(FMul(FDiv(age_diff, FromInt(10)), Nearest(Q(1, 100)))),
         LAMBDA age_adjustment :
        IF QLt(Q(5, 1000), QAbs(age_adjustment.q))
        THEN [k \in {"age"} |-> age_adjustment]
        ELSE EmptyDict))))

calculate_feature_adjustments(subject_home, comparables) ==
    MajorityAdjustment(subject_home, comparables, "pool", Q(3, 100))
      @@ MajorityAdjustment(subject_home, comparables, "garage", Q(2, 100))
      @@ AgeAdjustment(subject_home, comparables)

\* sum(feature_adjustments.values()), in the order the entries were inserted
SumValues(d) ==
    FSum(<<Get(d, "pool", Zero), Get(d, "garage", Zero), Get(d, "age", Zero)>>)

\* statistics.stdev squared: the sample variance of a list of numbers
SampleVariance(xs) ==
    Bind(Mean(xs), LAMBDA m :
        QDiv(QSum([i \in 1..Len(xs) |->
                      Bind(QSub(xs[i], m), LAMBDA dev : QMul(dev, dev))]),
             QInt(Len(xs) - 1)))

\* range_pct, carried by its square: min(0.15, max(0.05, cv)) with
\* cv = std_dev / mean_price, and 0.10 for a single comparable
RangePctSquared(comparables) ==
    Bind([i \in 1..Len(comparables) |-> QInt(Get(comparables[i], "sale_price", 0))],
         LAMBDA comp_prices :
    Bind(Mean(comp_prices), LAMBDA mean_price :
        IF Len(comp_prices) > 1
        THEN QMin(Q(225, 10000),
                  QMax(Q(25, 10000),
                       IF QLt(QInt(0), mean_price)
                       THEN QDiv(SampleVariance(comp_prices),
                                 QMul(mean_price, mean_price))
                       ELSE Q(1, 100)))
        ELSE Q(1, 100)))

\* the square root of a rational that is the square of a rational, else <<>>
RationalRoot(a) ==
    Bind(Sqrt(QInt(a[1]), 0), LAMBDA n :
    Bind(Sqrt(QInt(a[2]), 0), LAMBDA d :
        IF n.rem = 0 /\ d.rem = 0 THEN Q(n.root, d.root) ELSE <<>>))

\* int(price * (1 + sign * range_pct)) for sign = 1 or -1.  range_pct is a
\* literal that is no double (0.05, 0.10, 0.15) or a computed quotient, so
\* 1 + sign * range_pct is approximate; when range_pct is irrational the
\* product is no integer and its integer part comes from sqrt(price^2 * pct2).
ScaleTrunc(price, pct2, sign) ==
    Bind(RationalRoot(pct2), LAMBDA pct :
        IF price = 0 THEN {0}
        ELSE IF pct # <<>>
        THEN IntOutcomes(FMul(FromInt(price),
                              Float(QAdd(QInt(1), QMul(QInt(sign), pct)), "approx")))
        ELSE Bind(Sqrt(QMul(QInt(price * price), pct2), 0).root, LAMBDA s :
                 Bind(IF sign > 0 THEN Abs(price) + s ELSE Abs(price) - s - 1, LAMBDA m :
                     {IF price < 0 THEN -m ELSE m})))

\* the price ranges the build can return
calculate_price_range(recommended_price, comparables) ==
    Bind(RangePctSquared(comparables), LAMBDA range_pct2 :
        {[low |-> low, high |-> high] :
            low  \in ScaleTrunc(recommended_price, range_pct2, -1),
            high \in ScaleTrunc(recommended_price, range_pct2, 1)})

\* the confidence without the check of the number of comparables
ConfidenceBySimilarity(comparables, condition_summary) ==
    Bind(QMean([i \in 1..Len(comparables) |->
                   Get(comparables[i], "similarity_score", QInt(0))]),
         LAMBDA avg_similarity :
    Bind(IF QLe(QInt(75), avg_similarity) THEN "High"
         ELSE IF QLe(QInt(60), avg_similarity) THEN "Medium"
         ELSE "Low", LAMBDA confidence :
        IF Get(condition_summary, "concerns", <<>>) # <<>>
        THEN (IF confidence = "High" THEN "Medium"
              ELSE IF confidence = "Medium" THEN "Low"
              ELSE confidence)
        ELSE confidence))

\* the confidence that the concerns of the condition summary do not lower
ConfidenceWithoutDowngrade(comparables, condition_summary) ==
    IF Len(comparables) < 3 THEN "Low"
    ELSE
    Bind(QMean([i \in 1..Len(comparables) |->
                   Get(comparables[i], "similarity_score", QInt(0))]),
         LAMBDA avg_similarity :
        IF QLe(QInt(75), avg_similarity) THEN "High"
        ELSE IF QLe(QInt(60), avg_similarity) THEN "Medium"
        ELSE "Low")

determine_confidence(comparables, condition_summary) ==
    IF Len(comparables) < 3 THEN "Low"
    ELSE
    Bind(QMean([i \in 1..Len(comparables) |->
                   Get(comparables[i], "similarity_score", QInt(0))]),
         LAMBDA avg_similarity :
    Bind(IF QLe(QInt(75), avg_similarity) THEN "High"
         ELSE IF QLe(QInt(60), avg_similarity) THEN "Medium"
         ELSE "Low", LAMBDA confidence :
        IF Get(condition_summary, "concerns", <<>>) # <<>>
        THEN (IF confidence = "High" THEN "Medium"
              ELSE IF confidence = "Medium" THEN "Low"
              ELSE confidence)
        ELSE confidence))

\* the parameters of the methodology text: K and the mean distance (:.4f)
get_methodology_description(comparables) ==
    {[K |-> Len(comparables), avg_knn_distance |-> avg] :
        avg \in RoundOutcomes(FMean([i \in 1..Len(comparables) |->
                                 Nearest(Get(comparables[i], "knn_distance", QInt(0)))]),
                              10000)}

\* {k: round(v * 100, 2) for k, v in feature_adjustments.items()}
PercentDicts(feature_adjustments) ==
    {pcts \in [DOMAIN feature_adjustments ->
                  UNION {RoundOutcomes(FMul(feature_adjustments[k], FromInt(100)), 100) :
                            k \in DOMAIN feature_adjustments}] :
        \A k \in DOMAIN feature_adjustments :
            pcts[k] \in RoundOutcomes(FMul(feature_adjustments[k], FromInt(100)), 100)}

\* the dicts estimate_price can return when its final price truncates to
\* recommended_price, its other locals being computed
Recommendations(recommended_price, subject_home, comparables, condition_summary, computed) ==
    Bind(SqftOrOne(subject_home), LAMBDA sqft :
    Bind(IF sqft > 0 THEN Nearest(Q(recommended_price, sqft)) ELSE Zero,
         LAMBDA price_per_sqft :
        {[recommended_price    |-> recommended_price,
          price_range          |-> price_range,
          confidence           |-> determine_confidence(comparables, condition_summary),
          price_per_sqft       |-> Q(per_sqft, 100),
          base_price           |-> base,
          total_adjustment_pct |-> Q(total_pct, 100),
          adjustments          |->
             [condition_adjustment |-> Q(condition_pct, 100),
              feature_adjustments  |-> [k \in DOMAIN feature_pcts |->
                                           Q(feature_pcts[k], 100)]],
          methodology          |-> methodology] :
            price_range   \in calculate_price_range(recommended_price, comparables),
            per_sqft      \in RoundOutcomes(price_per_sqft, 100),
            base          \in IntOutcomes(computed.base_price),
            total_pct     \in RoundOutcomes(FMul(computed.total_adjustment,
                                                 FromInt(100)), 100),
            condition_pct \in RoundOutcomes(FMul(computed.condition_adjustment,
                                                 FromInt(100)), 100),
            feature_pcts  \in PercentDicts(computed.feature_adjustments),
            methodology   \in get_methodology_description(comparables)}))

\* the body of estimate_price after the empty-list check: the values of its
\* local variables and the dict it returns, for every way the build can round
EstimateFrom(subject_home, comparables, condition_summary) ==
    Bind(calculate_base_price(subject_home, comparables), LAMBDA base_price :
    Bind(calculate_condition_adjustment(condition_summary), LAMBDA condition_adjustment :
    Bind(calculate_feature_adjustments(subject_home, comparables),
         LAMBDA feature_adjustments :
    Bind([base_price           |-> base_price,
          condition_adjustment |-> condition_adjustment,
          feature_adjustments  |-> feature_adjustments,
          total_adjustment     |-> FAdd(condition_adjustment,
                                        SumValues(feature_adjustments)),
          range_pct2           |-> RangePctSquared(comparables)],
         LAMBDA computed :
        {[raised |-> "", locals |-> computed, value |-> value] :
            value \in UNION
               {Recommendations(recommended_price, subject_home, comparables,
                                condition_summary, computed) :
                   recommended_price \in
                       IntOutcomes(FMul(computed.base_price,
                                        FAdd(FromInt(1), computed.total_adjustment)))}}))))

\* estimate_price that returns nothing for an empty list instead of raising
EstimateWithoutRaise(subject_home, comparables, condition_summary) ==
    IF comparables = <<>>
    THEN {[raised |-> "", locals |-> None, value |-> None]}
    ELSE EstimateFrom(subject_home, comparables, condition_summary)

\* the outcomes of estimate_price: the exception raised, or the locals and the
\* value returned
estimate_price(subject_home, comparables, condition_summary) ==
    IF comparables = <<>>
    THEN {[raised |-> "ValueError", locals |-> None, value |-> None]}
    ELSE EstimateFrom(subject_home, comparables, condition_summary)

(***************************************************************************)
(* ConditionAnalyzer, JustificationGenerator and the analyze-home handler   *)
(***************************************************************************)
\* _calculate_condition_score: 75, adjusted by the age of the home and by the
\* numbers of condition keywords counted in the transcript, kept in 0..100
calculate_condition_score(home, counts) ==
    LET age == 2025 - Get(home, "year_built", 2000)
        by_age == IF age < 5 THEN 15 ELSE IF age < 10 THEN 10 ELSE IF age < 20 THEN 5
                  ELSE IF age > 50 THEN -10 ELSE 0
        base_score == 75 + by_age + counts.excellent * 3 + counts.good * 2
                         - counts.fair * 1 - counts.poor * 3
    IN  IF base_score > 100 THEN 100 ELSE IF base_score < 0 THEN 0 ELSE base_score

determine_overall_condition(score) ==
    IF score >= 85 THEN "Excellent" ELSE IF score >= 70 THEN "Good"
    ELSE IF score >= 50 THEN "Fair" ELSE "Poor"

\* ConditionAnalyzer.analyze, a transcript being given by its keyword counts
\* and the sentences of concern found in it; of the summary, the entries the
\* estimator reads
analyze(subject_home, video_transcript) ==
    Bind(calculate_condition_score(subject_home, video_transcript.counts), LAMBDA score :
        [overall_condition |-> determine_overall_condition(score),
         condition_score   |-> QInt(score),
         concerns          |-> SliceTo(video_transcript.concerns, 5)])

\* JustificationGenerator.generate: the text, given by the values it quotes
generate(subject_home, comparables, price_recommendation, condition_summary) ==
    [address     |-> Get(subject_home, "address", "Subject Property"),
     price       |-> price_recommendation.recommended_price,
     low         |-> price_recommendation.price_range.low,
     high        |-> price_recommendation.price_range.high,
     confidence  |-> price_recommendation.confidence,
     comparables |-> Len(comparables),
     condition   |-> condition_summary.overall_condition]

\* str(e) of the exceptions of the model
ErrorMessage(raised) ==
    IF raised = "ValueError" THEN "No comparables provided for price estimation"
    ELSE raised

\* an error response that also carries the results of the completed steps
ErrorWithCompletedSteps(raised, completed) ==
    [status |-> 500,
     body   |-> [success |-> FALSE, error |-> ErrorMessage(raised)] @@ completed]

\* the except branch of analyze_home, the locals the try block had assigned
\* being completed: the response names the error and nothing else
ErrorResponse(raised, completed) ==
    [status |-> 500, body |-> [success |-> FALSE, error |-> ErrorMessage(raised)]]

\* the response of analyze_home for a ranking of the candidates and an
\* outcome of the estimate, with the locals of the handler
AnalyzeHomeFrom(subject_home, comparable_sales, condition_summary, selection, estimate, now) ==
    Bind([condition_summary |-> condition_summary,
          top_comparables   |-> selection.result], LAMBDA completed :
        IF estimate.raised # ""
        THEN [completed |-> completed @@ [price_recommendation |-> None],
              response  |-> ErrorResponse(estimate.raised, completed)]
        ELSE [completed |-> completed @@ [price_recommendation |-> estimate.value],
              response  |->
                 [status |-> 200,
                  body   |-> [success              |-> TRUE,
                              subject_home         |-> subject_home,
                              condition_summary    |-> condition_summary,
                              top_comparables      |-> selection.result,
                              price_recommendation |-> estimate.value,
                              justification        |->
                                  generate(subject_home, selection.result,
                                           estimate.value, condition_summary),
                              generated_at         |-> now]]])

(***************************************************************************)
(* The inputs of a request                                                  *)
(***************************************************************************)
\* the longest candidate list of a request
MaxPool == 3

\* Subject homes: no attribute at all, the shape of sample_data.py (size
\* under 'square_footage', 'pool' and 'garage' flags) and the shape the data
\* loader produces ('sqft', 'has_private_pool', no 'pool' key).
SubjectEmpty == EmptyDict

SubjectSample ==
    [address |-> "123 Main Street", latitude |-> QInt(30), longitude |-> QInt(-97),
     square_footage |-> 20, bedrooms |-> 3, bathrooms |-> 2, year_built |-> 2010,
     pool |-> TRUE, garage |-> TRUE]

SubjectLoaded ==
    [address |-> "9 Palm Lane", latitude |-> QInt(30), longitude |-> QInt(-97), sqft |-> 30,
     bedrooms |-> 4, bathrooms |-> 2, year_built |-> 1980, garage_spaces |-> 2,
     has_pool |-> TRUE, has_private_pool |-> TRUE, has_community_pool |-> FALSE]

SubjectHomes == {SubjectEmpty, SubjectSample, SubjectLoaded}

\* Listings: raw sales and already ranked comparables (with knn_distance and
\* similarity_score), sizes and prices in small units.
ListingTwin ==
    [address |-> "125 Main Street", latitude |-> QInt(30), longitude |-> QInt(-97),
     square_footage |-> 20, bedrooms |-> 3, bathrooms |-> 2, year_built |-> 2010,
     pool |-> TRUE, garage |-> TRUE, sale_price |-> 100,
     knn_distance |-> Q(0, 1), similarity_score |-> Q(100, 1)]

ListingOak ==
    [address |-> "456 Oak Avenue", latitude |-> QInt(30), longitude |-> QInt(-97),
     square_footage |-> 30, bedrooms |-> 3, bathrooms |-> 2, year_built |-> 2010,
     pool |-> FALSE, garage |-> TRUE, sale_price |-> 110, days_since_sale |-> 30,
     sale_date |-> "2025-09-08",
     knn_distance |-> Q(1, 4), similarity_score |-> Q(7788, 100)]

ListingElm ==
    [address |-> "789 Elm Street", latitude |-> QInt(30), longitude |-> QInt(-97), sqft |-> 20,
     bedrooms |-> 3, bathrooms |-> 2, year_built |-> 2010, garage_spaces |-> 0,
     has_pool |-> TRUE, has_private_pool |-> TRUE, sale_price |-> 110,
     sale_date |-> "2025-08-24"]

ListingCedar ==
    [address |-> "888 Cedar Lane", sqft |-> 0, year_built |-> 2010,
     sale_price |-> 120, sale_date |-> "",
     knn_distance |-> Q(3, 1), similarity_score |-> Q(498, 100)]

ListingEmpty == EmptyDict

Listings == {ListingTwin, ListingOak, ListingElm, ListingCedar, ListingEmpty}

RECURSIVE ListsOf(_, _)
ListsOf(S, n) ==
    IF n = 0 THEN {<<>>}
    ELSE LET shorter == ListsOf(S, n - 1)
         IN  shorter \cup {Append(l, x) : l \in {m \in shorter : Len(m) = n - 1}, x \in S}

\* Homes of other ages: a sale built 60 years before the sample subject, a
\* subject built 60 years before the sales, and one built 5 years after them.
AgedListing ==
    [square_footage |-> 20, year_built |-> 1950, sale_price |-> 100,
     knn_distance |-> Q(0, 1)]

AgedSubject == [sqft |-> 20, year_built |-> 1950]

NewerSubject == [sqft |-> 20, year_built |-> 2015]

\* a sale recorded with its price and without a size
UnsizedListing == [sale_price |-> 100, knn_distance |-> Q(0, 1)]

\* records that state a size under both names
TwoSizeSubject == [sqft |-> 20, square_footage |-> 30]

TwoSizeListing ==
    [sqft |-> 20, square_footage |-> 30, sale_price |-> 120, knn_distance |-> Q(0, 1)]

\* The worked example of the specification: 2400 sqft, sold for 600000, at
\* distance 0.
ExampleSubject == [sqft |-> 2400]

ExampleListing == [sqft |-> 2400, sale_price |-> 600000, knn_distance |-> Q(0, 1)]

\* A home and a sale of the same size whose price per square foot is no
\* double: 205000 / 650.
UnevenSubject == [sqft |-> 650]

UnevenListing == [sqft |-> 650, sale_price |-> 205000, knn_distance |-> Q(0, 1)]

\* A subject record whose size was entered with the wrong sign: neither the
\* endpoints nor the loader check the sign of 'sqft'.
MiskeyedSubject == [sqft |-> -20]

\* The pool example of the specification: four sales, three of them with a
\* pool, for a subject without one.
PoolExample == <<ListingTwin, ListingTwin, ListingTwin, ListingOak>>

\* A subject whose size is unknown: the loader fills a missing 'sqft' with 0.
UnsizedSubject == [sqft |-> 0]

\* Three units of one building, at the same coordinates: the latitude 30.25
\* is a double, the longitude -97.4 is not.
CondoUnit(unit, sqft, sale_price) ==
    [address |-> unit, latitude |-> Q(121, 4), longitude |-> Q(-487, 5),
     sqft |-> sqft, bedrooms |-> 3, bathrooms |-> 2, year_built |-> 2010,
     sale_price |-> sale_price, days_since_sale |-> 30]

CondoUnits ==
    <<CondoUnit("Unit 1", 30, 110), CondoUnit("Unit 2", 20, 100),
      CondoUnit("Unit 3", 20, 110)>>

\* a fourth unit of the building, not yet sold
CondoSubject ==
    [address |-> "Unit 4", latitude |-> Q(121, 4), longitude |-> Q(-487, 5),
     sqft |-> 20, bedrooms |-> 3, bathrooms |-> 2, year_built |-> 2010]

Requests ==
    (SubjectHomes \X ListsOf(Listings, MaxPool))
      \cup {<<ExampleSubject, <<ExampleListing>>>>, <<UnevenSubject, <<UnevenListing>>>>,
            <<CondoSubject, CondoUnits>>, <<SubjectSample, CondoUnits>>,
            <<MiskeyedSubject, <<ListingTwin>>>>,
            <<SubjectEmpty, PoolExample>>,
            <<UnsizedSubject, <<ListingTwin, ListingOak>>>>,
            <<SubjectSample, <<AgedListing>>>>, <<AgedSubject, <<ListingTwin>>>>,
            <<NewerSubject, <<ListingTwin>>>>,
            <<SubjectSample, <<UnsizedListing>>>>,
            <<TwoSizeSubject, <<ListingTwin>>>>, <<SubjectSample, <<TwoSizeListing>>>>}

\* The requests of analyze-home: those with an empty pool or a single
\* candidate, and two pools of candidates at equal distances.  With several
\* candidates at unrelated four-decimal distances the exact weighted mean of
\* the estimate outgrows the integers of the checker.
HomeRequests ==
    {r \in Requests : Len(r[2]) <= 1}
      \cup {<<SubjectSample, <<ListingTwin, ListingTwin>>>>,
            <<SubjectLoaded, <<ListingElm, ListingElm, ListingElm>>>>}

\* num_comps values: negative, zero, up to the pool size, and the default 5
NumComps == (-1 .. MaxPool) \cup {5}

ConditionSummaries ==
    {EmptyDict,
     [overall_condition |-> "Excellent", condition_score |-> Q(70, 1), concerns |-> <<>>],
     [overall_condition |-> "Good", condition_score |-> Q(100, 1), concerns |-> <<>>],
     [overall_condition |-> "Poor", condition_score |-> Q(0, 1),
      concerns |-> <<"The carpet is worn.">>],
     [overall_condition |-> "Unknown", condition_score |-> Q(55, 1),
      concerns |-> <<"The roof has an issue.">>],
     [condition_score |-> Q(17, 2), issues |-> <<"Minor wear on flooring">>]}

\* video transcripts: none, one of praise ("pristine", "immaculate", "clean",
\* "great") and one of wear ("worn", "repair" in two sentences of concern,
\* "minor", "renovation", "replace" and eight times "poor")
Transcripts ==
    {[counts |-> [excellent |-> 0, good |-> 0, fair |-> 0, poor |-> 0], concerns |-> <<>>],
     [counts |-> [excellent |-> 2, good |-> 2, fair |-> 0, poor |-> 0], concerns |-> <<>>],
     [counts |-> [excellent |-> 0, good |-> 0, fair |-> 1, poor |-> 12],
      concerns |-> <<"The roof needs repair.", "The carpet is worn.">>]}

\* the current date: the year and the day number counted from 2025-01-01
Clock == {[year |-> 2025, day |-> 295], [year |-> 2026, day |-> 385]}

(***************************************************************************)
(* The state machine: one request, served by select_top_comparables or     *)
(* by estimate_price                                                        *)
(***************************************************************************)
VARIABLES
    subject_home,         \* the caller's subject record
    comparable_sales,     \* the caller's list of records
    now,                  \* the date of the call
    pc,                   \* "ready", "selected", "estimated" or "failed"
    num_comps,            \* the k of the select call, None before it
    condition_summary,    \* the condition summary of the estimate call
    top_comparables,      \* the list select_top_comparables returned
    price_recommendation, \* the dict estimate_price returned
    locals,               \* the local variables of estimate_price at return
    raised,               \* the exception class estimate_price raised, or ""
    ranking,              \* the locals of select_top_comparables at return
    stdout,               \* the number of feature vectors printed
    response,             \* the response of analyze_home, None before it
    calls                 \* the invocations in flight on the shared services

vars ==
    <<subject_home, comparable_sales, now, pc, num_comps, condition_summary,
      top_comparables, price_recommendation, locals, raised, ranking, stdout,
      response, calls>>

Init ==
    /\ \E r \in Requests : subject_home = r[1] /\ comparable_sales = r[2]
    /\ now \in Clock
    /\ pc = "ready"
    /\ num_comps = None
    /\ condition_summary = None
    /\ top_comparables = None
    /\ price_recommendation = None
    /\ locals = None
    /\ raised = ""
    /\ ranking = None
    /\ stdout = 0
    /\ response = None
    /\ calls = <<>>

\* select_top_comparables(subject_home, comparable_sales, k)
SelectTopComparables ==
    /\ pc = "ready"
    /\ \E ranked \in RankCandidates(subject_home, comparable_sales, now) :
        \E k \in NumComps :
            Bind(select_top_comparables(subject_home, comparable_sales, k, ranked),
                 LAMBDA r :
                    /\ num_comps' = k
                    /\ top_comparables' = r.result
                    /\ ranking' = r.ranking
                    /\ stdout' = stdout + r.printed
                    /\ comparable_sales' = r.comparable_sales)
    /\ pc' = "selected"
    /\ UNCHANGED <<subject_home, now, condition_summary,
                   price_recommendation, locals, raised, response, calls>>

\* estimate_price(subject_home, comparable_sales, c)
EstimatePrice ==
    /\ pc = "ready"
    /\ \E c \in ConditionSummaries :
        \E r \in estimate_price(subject_home, comparable_sales, c) :
            /\ condition_summary' = c
            /\ price_recommendation' = r.value
            /\ locals' = r.locals
            /\ raised' = r.raised
            /\ pc' = IF r.raised = "" THEN "estimated" ELSE "failed"
    /\ UNCHANGED <<subject_home, comparable_sales, now, num_comps, top_comparables,
                   ranking, stdout, response, calls>>

\* POST /api/analyze-home: condition analysis, selection of 5 comparables,
\* price estimate, justification, response
AnalyzeHome ==
    /\ pc = "ready"
    /\ <<subject_home, comparable_sales>> \in HomeRequests
    /\ \E video_transcript \in Transcripts :
        \E ranked \in RankCandidates(subject_home, comparable_sales, now) :
            Bind(analyze(subject_home, video_transcript), LAMBDA summary :
            Bind(select_top_comparables(subject_home, comparable_sales, 5, ranked),
                 LAMBDA selection :
                \E estimate \in estimate_price(subject_home, selection.result, summary) :
                    Bind(AnalyzeHomeFrom(subject_home, comparable_sales, summary,
                                         selection, estimate, now), LAMBDA r :
                        /\ num_comps' = 5
                        /\ condition_summary' = r.completed.condition_summary
                        /\ top_comparables' = r.completed.top_comparables
                        /\ price_recommendation' = r.completed.price_recommendation
                        /\ comparable_sales' = selection.comparable_sales
                        /\ ranking' = selection.ranking
                        /\ stdout' = stdout + selection.printed
                        /\ locals' = estimate.locals
                        /\ raised' = estimate.raised
                        /\ response' = r.response)))
    /\ pc' = "responded"
    /\ UNCHANGED <<subject_home, now, calls>>

Next == SelectTopComparables \/ EstimatePrice \/ AnalyzeHome

Spec == Init /\ [][Next]_vars

(***************************************************************************)
(* Two invocations in flight on the module-level services of app.py, each   *)
(* advancing statement by statement with its own arguments and locals       *)
(***************************************************************************)
CallIds == {1, 2}

\* an invocation at its entry: its arguments, and its locals unassigned
Called(kind, subject, sales, k, summary, date) ==
    [kind |-> kind, pc |-> "called", subject_home |-> subject,
     comparable_sales |-> sales, num_comps |-> k, condition_summary |-> summary,
     now |-> date, subject_features |-> None, comparable_features |-> None,
     feature_stats |-> None, distances |-> None, estimate |-> None,
     result |-> None, raised |-> "", overlapped |-> FALSE]

\* the selections of the interleavings at one date, one of them over the
\* three units of one building
Selections(date) ==
    <<Called("select", SubjectSample, <<ListingTwin, ListingOak, ListingElm>>, 2, None, date),
      Called("select", SubjectLoaded, <<ListingElm, ListingCedar>>, 5, None, date),
      Called("select", SubjectSample, CondoUnits, 3, None, date),
      Called("select", SubjectEmpty, <<>>, 5, None, date)>>

\* the invocations of the interleavings: the selections at both dates, an
\* estimate that returns and one that raises
Invocations ==
    Selections([year |-> 2025, day |-> 295]) \o Selections([year |-> 2026, day |-> 385])
      \o <<Called("estimate", SubjectSample, <<ListingTwin, ListingOak>>, None,
                  [overall_condition |-> "Excellent", condition_score |-> Q(70, 1),
                   concerns |-> <<>>],
                  [year |-> 2025, day |-> 295]),
           Called("estimate", SubjectEmpty, <<>>, None, EmptyDict,
                  [year |-> 2025, day |-> 295])>>

\* select_top_comparables up to the extraction of the features
ExtractStep(c) ==
    IF c.comparable_sales = <<>> THEN [c EXCEPT !.result = <<>>, !.pc = "done"]
    ELSE [c EXCEPT
             !.subject_features = extract_features(c.subject_home, c.now),
             !.comparable_features =
                 [i \in 1..Len(c.comparable_sales) |->
                     extract_features(c.comparable_sales[i], c.now)],
             !.pc = "extracted"]

\* statistics fitted on the features another invocation holds between its
\* extraction and its return, as if the features were kept on the selector
FitStatsOfSharedFeatures(invocations, id, residues) ==
    LET holders == {j \in CallIds \ {id} :
                       invocations[j].pc \in {"extracted", "fitted", "measured", "sorted"}}
    IN  IF holders = {} THEN calculate_feature_stats(invocations[id].comparable_features,
                                                     residues)
        ELSE calculate_feature_stats(
                 invocations[CHOOSE j \in holders : TRUE].comparable_features, {})

\* feature_stats = self._calculate_feature_stats(comparable_features): fitted
\* on the features this invocation extracted, into a local of the invocation
FitStats(invocations, id, residues) ==
    calculate_feature_stats(invocations[id].comparable_features, residues)

\* the normalization and the loop that measures the distances
MeasureStep(c) ==
    Bind(normalize_features(c.subject_features, c.feature_stats), LAMBDA subject_normalized :
        [c EXCEPT
            !.distances =
                [i \in 1..Len(c.comparable_features) |->
                    [idx |-> i,
                     distance |-> calculate_weighted_euclidean_distance(
                                      subject_normalized,
                                      normalize_features(c.comparable_features[i],
                                                         c.feature_stats))]],
            !.pc = "measured"])

SortStep(c) == [c EXCEPT !.distances = SortByDistance(@), !.pc = "sorted"]

\* the slice, the result loop and the return
BuildStep(c) ==
    [c EXCEPT !.result = KNearest(c, c.comparable_sales, c.num_comps), !.pc = "done"]

\* estimate_price up to the return statement, estimate being its outcome
ComputeStep(c, estimate) ==
    IF estimate.raised # "" THEN [c EXCEPT !.raised = estimate.raised, !.pc = "done"]
    ELSE [c EXCEPT !.estimate = estimate, !.pc = "computed"]

ReturnStep(c) == [c EXCEPT !.result = c.estimate.value, !.pc = "done"]

\* invocation id moves to c; it has overlapped another one if that one is
\* between its entry and its return
Advance(id, c) ==
    calls' = [calls EXCEPT ![id] =
                 [c EXCEPT !.overlapped =
                     @ \/ \E j \in CallIds \ {id} : calls[j].pc \notin {"called", "done"}]]

InitConcurrent ==
    /\ \E first, second \in 1..Len(Invocations) :
          calls = <<Invocations[first], Invocations[second]>>
    /\ subject_home = EmptyDict
    /\ comparable_sales = <<>>
    /\ now = [year |-> 2025, day |-> 295]
    /\ pc = "serving"
    /\ num_comps = None
    /\ condition_summary = None
    /\ top_comparables = None
    /\ price_recommendation = None
    /\ locals = None
    /\ raised = ""
    /\ ranking = None
    /\ stdout = 0
    /\ response = None

Unserved ==
    UNCHANGED <<subject_home, comparable_sales, now, pc, num_comps, condition_summary,
                top_comparables, price_recommendation, locals, raised, ranking, stdout,
                response>>

Extract ==
    /\ \E id \in CallIds :
          /\ calls[id].kind = "select" /\ calls[id].pc = "called"
          /\ Advance(id, ExtractStep(calls[id]))
    /\ Unserved

Fit ==
    /\ \E id \in CallIds :
          /\ calls[id].pc = "extracted"
          /\ \E residues \in SUBSET Unsettled(calls[id].comparable_features) :
                Advance(id, [calls[id] EXCEPT
                                !.feature_stats = FitStats(calls, id, residues),
                                !.pc = "fitted"])
    /\ Unserved

Measure ==
    /\ \E id \in CallIds :
          calls[id].pc = "fitted" /\ Advance(id, MeasureStep(calls[id]))
    /\ Unserved

Sort ==
    /\ \E id \in CallIds :
          calls[id].pc = "measured" /\ Advance(id, SortStep(calls[id]))
    /\ Unserved

Build ==
    /\ \E id \in CallIds :
          calls[id].pc = "sorted" /\ Advance(id, BuildStep(calls[id]))
    /\ Unserved

Compute ==
    /\ \E id \in CallIds :
          /\ calls[id].kind = "estimate" /\ calls[id].pc = "called"
          /\ \E estimate \in estimate_price(calls[id].subject_home,
                                             calls[id].comparable_sales,
                                             calls[id].condition_summary) :
                Advance(id, ComputeStep(calls[id], estimate))
    /\ Unserved

Return ==
    /\ \E id \in CallIds :
          calls[id].pc = "computed" /\ Advance(id, ReturnStep(calls[id]))
    /\ Unserved

NextConcurrent == Extract \/ Fit \/ Measure \/ Sort \/ Build \/ Compute \/ Return

SpecConcurrent == InitConcurrent /\ [][NextConcurrent]_vars

(***************************************************************************)
(* Properties of select_top_comparables                                    *)
(***************************************************************************)
Min(a, b) == IF a < b THEN a ELSE b

Max(a, b) == IF a < b THEN b ELSE a

Selected == pc = "selected" /\ comparable_sales # <<>>

\* C1: for every subject, non-empty pool and k, the list returned by
\* select_top_comparables is in non-decreasing order of knn_distance, and so
\* in non-increasing order of similarity_score.
C1_SortedByDistance ==
    Selected =>
        \A i \in 1..(Len(top_comparables) - 1) :
            /\ ~Nearer(top_comparables[i + 1].knn_distance,
                       top_comparables[i].knn_distance)
            /\ QLe(top_comparables[i + 1].similarity_score,
                   top_comparables[i].similarity_score)

\* a call that had to reorder: the nearest candidate is not the first of the
\* pool, and the results lie at different distances
C1_Witness ==
    /\ Selected
    /\ Len(top_comparables) >= 2
    /\ Nearer(top_comparables[1].knn_distance,
              top_comparables[Len(top_comparables)].knn_distance)
    /\ "address" \in DOMAIN comparable_sales[1]
    /\ "address" \in DOMAIN top_comparables[1]
    /\ top_comparables[1].address # comparable_sales[1].address

\* the keys select_top_comparables adds to a candidate
AddedKeys == {"similarity_score", "knn_distance", "distance_miles", "score_breakdown"}

\* a record without the keys the selection adds
Candidate(record) == [key \in DOMAIN record \ AddedKeys |-> record[key]]

\* C2: for every non-empty pool and every integer k the call returns at most
\* min(k, pool size) results (none for a negative k), and every candidate
\* exactly once when k is at least the pool size.
C2_AtMostKResults ==
    Selected =>
        /\ Len(top_comparables) <= Max(0, Min(num_comps, Len(comparable_sales)))
        /\ num_comps >= Len(comparable_sales) =>
              /\ Len(top_comparables) = Len(comparable_sales)
              /\ \A i \in 1..Len(comparable_sales) :
                    Cardinality({j \in 1..Len(top_comparables) :
                        Candidate(top_comparables[j]) = Candidate(comparable_sales[i])})
                    = Cardinality({j \in 1..Len(comparable_sales) :
                        Candidate(comparable_sales[j]) = Candidate(comparable_sales[i])})

\* C3: with an empty pool select_top_comparables returns the empty list for
\* every subject and k, and extracts no features (extraction prints the
\* feature vector it built).
C3_EmptyPoolEmptyResult ==
    (pc = "selected" /\ comparable_sales = <<>>) =>
        top_comparables = <<>> /\ stdout = 0

\* the call on an empty pool for the empty subject record and the default k
C3_Witness ==
    /\ pc = "selected"
    /\ comparable_sales = <<>>
    /\ subject_home = SubjectEmpty
    /\ num_comps = 5
    /\ top_comparables = <<>>

\* the distance of the j-th result before rounding (carried by its square)
Distance(j) == ranking.distances[j].distance

ConstantFeature(feature) ==
    \A i \in 1..Len(ranking.comparable_features) :
        ranking.comparable_features[i][feature] = ranking.comparable_features[1][feature]

\* C8: for a feature with the same value in every candidate the fitted
\* FeatureStats record the standard deviation 1.0 (carried by its square),
\* and the normalized value of the subject and of every candidate on that
\* feature is value - mean.
C8_ConstantFeatureUnitDeviation ==
    Selected =>
        \A feature \in FeatureNames :
            ConstantFeature(feature) =>
                /\ ranking.feature_stats[feature].var = QInt(1)
                /\ ranking.subject_normalized[feature] =
                      [dev |-> QSub(ranking.subject_features[feature],
                                    ranking.feature_stats[feature].mean),
                       var |-> QInt(1)]
                /\ \A i \in 1..Len(ranking.comparable_features) :
                      ranking.comparable_normalized[i][feature] =
                          [dev |-> QSub(ranking.comparable_features[i][feature],
                                        ranking.feature_stats[feature].mean),
                           var |-> QInt(1)]

(***************************************************************************)
(* Properties of estimate_price                                            *)
(***************************************************************************)
\* C4: estimate_price on an empty comparable list raises ValueError for every
\* subject and condition summary, before any of its locals is computed, and
\* returns no recommendation.
C4_EmptyListRaises ==
    (pc \in {"estimated", "failed"} /\ comparable_sales = <<>>) =>
        /\ pc = "failed"
        /\ raised = "ValueError"
        /\ locals = None
        /\ price_recommendation = None

\* the failed call for a subject with data and a summary with concerns
C4_Witness ==
    /\ pc = "failed"
    /\ comparable_sales = <<>>
    /\ subject_home = SubjectSample
    /\ Get(condition_summary, "concerns", <<>>) # <<>>
    /\ raised = "ValueError"

\* C5: every recommendation estimate_price returns has
\* price_range.low <= recommended_price <= price_range.high, with range_pct
\* in [0.05, 0.15] (carried by its square), for every subject, non-empty
\* comparable list and condition summary.
C5_PriceWithinRange ==
    pc = "estimated" =>
        /\ price_recommendation.price_range.low <= price_recommendation.recommended_price
        /\ price_recommendation.recommended_price <= price_recommendation.price_range.high
        /\ QLe(Q(25, 10000), locals.range_pct2)
        /\ QLe(locals.range_pct2, Q(225, 10000))

\* C6: with fewer than 3 comparables the confidence estimate_price returns is
\* 'Low', never 'High', whatever their similarity scores and whether or not
\* the condition summary lists concerns.
C6_FewComparablesLowConfidence ==
    (pc = "estimated" /\ Len(comparable_sales) < 3) =>
        price_recommendation.confidence = "Low"

\* two comparables of similarity 100 and a summary without concerns
C6_Witness ==
    /\ pc = "estimated"
    /\ comparable_sales = <<ListingTwin, ListingTwin>>
    /\ Get(condition_summary, "concerns", <<>>) = <<>>
    /\ price_recommendation.confidence = "Low"

\* the adjustment of a condition label
LabelAdjustment(label) ==
    CASE label = "Excellent" -> Q(8, 100)
      [] label = "Good"      -> Q(3, 100)
      [] label = "Fair"      -> Q(0, 100)
      [] label = "Poor"      -> Q(-10, 100)
      [] OTHER               -> Q(0, 100)

\* C9: the condition adjustment is the adjustment of the label (0.00 for a
\* missing or unknown one) plus (condition_score - 70) / 1000, a missing score
\* counting as 70; the label 'Excellent' with score 70 gives the double 0.08,
\* reported as 8.0 percent.
C9_ConditionAdjustment ==
    pc = "estimated" =>
        /\ locals.condition_adjustment.q =
              QAdd(LabelAdjustment(Get(condition_summary, "overall_condition", "Fair")),
                   QDiv(QSub(Get(condition_summary, "condition_score", QInt(70)),
                             QInt(70)),
                        QInt(1000)))
        /\ (/\ Get(condition_summary, "overall_condition", "") = "Excellent"
            /\ Get(condition_summary, "condition_score", QInt(0)) = QInt(70)) =>
              /\ locals.condition_adjustment = Nearest(Q(8, 100))
              /\ price_recommendation.adjustments.condition_adjustment = QInt(8)

\* the estimate for the label 'Excellent' with score 70
C9_Witness ==
    /\ pc = "estimated"
    /\ Get(condition_summary, "overall_condition", "") = "Excellent"
    /\ Get(condition_summary, "condition_score", QInt(0)) = QInt(70)
    /\ locals.condition_adjustment.q = Q(8, 100)

\* the comparables with a positive size and a positive sale price
UsedComparables == SelectSeq(comparable_sales, Usable)

\* the size of the subject that the base price is computed for
SubjectSqft == IF SqftOrOne(subject_home) = 0 THEN 1 ELSE SqftOrOne(subject_home)

\* (sale_price / comp_sqft) * subject_sqft
SizeNormalizedPrice(comp) ==
    QMul(Q(comp.sale_price, SqftOrOne(comp)), QInt(SubjectSqft))

\* 1 / (1 + knn_distance)
InverseDistance(comp) ==
    QDiv(QInt(1), QAdd(QInt(1), Get(comp, "knn_distance", QInt(1))))

WeightedMeanPrice ==
    QDiv(QSum([i \in 1..Len(UsedComparables) |->
                  QMul(SizeNormalizedPrice(UsedComparables[i]),
                       InverseDistance(UsedComparables[i]))]),
         QSum([i \in 1..Len(UsedComparables) |-> InverseDistance(UsedComparables[i])]))

\* C10: the base price is the mean of the size-normalized prices of the
\* comparables with positive size and price, weighted by 1 / (1 + knn_distance);
\* it lies between the smallest and the largest of these prices; and for a
\* single comparable of the subject's size at distance 0 it is exactly the
\* sale price, in the computation and in the recommendation.
C10_BasePriceWeightedMean ==
    (pc = "estimated" /\ UsedComparables # <<>>) =>
        /\ locals.base_price.q = WeightedMeanPrice
        /\ \E i \in 1..Len(UsedComparables) :
              QLe(SizeNormalizedPrice(UsedComparables[i]), locals.base_price.q)
        /\ \E i \in 1..Len(UsedComparables) :
              QLe(locals.base_price.q, SizeNormalizedPrice(UsedComparables[i]))
        /\ (/\ Len(comparable_sales) = 1
            /\ SqftOrOne(comparable_sales[1]) = SqftOrOne(subject_home)
            /\ Get(comparable_sales[1], "knn_distance", QInt(1)) = QInt(0)) =>
              /\ locals.base_price = FromInt(comparable_sales[1].sale_price)
              /\ price_recommendation.base_price = comparable_sales[1].sale_price

\* record is known to have a pool: under the 'pool' key of sample_data.py or
\* under the private-pool and community-pool flags of the loaded records
PoolPresent(record) ==
    \E key \in {"pool", "has_pool", "has_private_pool", "has_community_pool"} :
        Truthy(Get(record, key, FALSE))

WithPool(comparables) == {i \in 1..Len(comparables) : PoolPresent(comparables[i])}

\* C11: the pool adjustment of an estimate is +0.03 when the subject has a
\* pool and strictly fewer than half of the comparables do, -0.03 when the
\* subject has none and strictly more than half do, and otherwise (exactly
\* half included) the feature adjustments hold no 'pool' entry.
C11_PoolMajorityRule ==
    pc = "estimated" =>
        LET with == Cardinality(WithPool(comparable_sales))
            n    == Len(comparable_sales)
            adjustments == locals.feature_adjustments
        IN  IF PoolPresent(subject_home) /\ 2 * with < n
            THEN "pool" \in DOMAIN adjustments /\ adjustments["pool"].q = Q(3, 100)
            ELSE IF ~PoolPresent(subject_home) /\ 2 * with > n
            THEN "pool" \in DOMAIN adjustments /\ adjustments["pool"].q = Q(-3, 100)
            ELSE "pool" \notin DOMAIN adjustments

\* the records of a selection with the feature vectors extracted from them:
\* the subject first, then the candidates
Extracted ==
    <<[record |-> subject_home, features |-> ranking.subject_features]>>
      \o [i \in 1..Len(comparable_sales) |->
             [record |-> comparable_sales[i], features |-> ranking.comparable_features[i]]]

\* the record supplies an explicit, non-zero days_since_sale
ExplicitDays(record) ==
    "days_since_sale" \in DOMAIN record /\ record["days_since_sale"] # 0

\* the record has a sale date that parses
ParsableDate(record) ==
    "sale_date" \in DOMAIN record /\ ParseDate(record["sale_date"]) >= 0

\* C12 as stated: the extracted days_since_sale is the explicit non-zero
\* value, else the whole days from a parsable sale date to now, else 90, both
\* for an unparsable sale date and for a record with no sale date.
C12_DaysSinceSaleDefault90 ==
    Selected =>
        \A e \in 1..Len(Extracted) :
            LET record == Extracted[e].record
                days   == Extracted[e].features.days_since_sale
            IN  IF ExplicitDays(record) THEN days = QInt(record["days_since_sale"])
                ELSE IF ParsableDate(record)
                     THEN days = QInt(now.day - ParseDate(record["sale_date"]))
                     ELSE days = QInt(90)

\* C12: the extracted days_since_sale is the explicit non-zero value, else
\* the whole days from a parsable sale date to now, else 90 when the record
\* has a sale date that cannot be parsed, and 0 when it has no sale date.
C12_DaysSinceSale ==
    Selected =>
        \A e \in 1..Len(Extracted) :
            LET record == Extracted[e].record
                days   == Extracted[e].features.days_since_sale
            IN  IF ExplicitDays(record) THEN days = QInt(record["days_since_sale"])
                ELSE IF ParsableDate(record)
                     THEN days = QInt(now.day - ParseDate(record["sale_date"]))
                     ELSE IF "sale_date" \in DOMAIN record THEN days = QInt(90)
                     ELSE days = QInt(0)

\* a selection over an explicit value, a parsed date, an unparsable date and
\* (the subject) a record without a sale date
C12_Witness ==
    /\ Selected
    /\ \E i, j, k \in 1..Len(comparable_sales) :
          /\ ExplicitDays(comparable_sales[i])
          /\ ~ExplicitDays(comparable_sales[j]) /\ ParsableDate(comparable_sales[j])
          /\ ranking.comparable_features[j].days_since_sale
                = QInt(now.day - ParseDate(comparable_sales[j]["sale_date"]))
          /\ "sale_date" \in DOMAIN comparable_sales[k]
          /\ ~ParsableDate(comparable_sales[k])
          /\ ranking.comparable_features[k].days_since_sale = QInt(90)
    /\ "sale_date" \notin DOMAIN subject_home
    /\ ranking.subject_features.days_since_sale = QInt(0)

\* the record lacks every one of the keys
Missing(record, keys) == keys \cap DOMAIN record = {}

\* C13: feature extraction never raises and returns, for every record, the
\* empty one included, a vector with exactly the eight feature keys; a missing
\* numeric attribute becomes 0, a missing year_built the current year, and
\* has_pool is 1 exactly when the private-pool or community-pool flag is true.
C13_ExtractionTotal ==
    Selected =>
        /\ raised = ""
        /\ \A e \in 1..Len(Extracted) :
              LET record   == Extracted[e].record
                  features == Extracted[e].features
              IN  /\ DOMAIN features =
                        {"latitude", "longitude", "sqft", "bedrooms", "bathrooms",
                         "year_built", "days_since_sale", "has_pool"}
                  /\ \A key \in {"latitude", "longitude", "bedrooms", "bathrooms"} :
                        Missing(record, {key}) => features[key] = QInt(0)
                  /\ Missing(record, {"sqft", "square_footage"}) => features.sqft = QInt(0)
                  /\ Missing(record, {"days_since_sale", "sale_date"}) =>
                        features.days_since_sale = QInt(0)
                  /\ Missing(record, {"year_built"}) =>
                        features.year_built = QInt(now.year)
                  /\ features.has_pool =
                        IF \E flag \in {"has_private_pool", "has_community_pool"} :
                               flag \in DOMAIN record /\ record[flag] = TRUE
                        THEN QInt(1) ELSE QInt(0)

\* the empty subject against a pool holding the empty record and a record
\* with a private pool, in 2026
C13_Witness ==
    /\ Selected
    /\ subject_home = SubjectEmpty
    /\ now.year = 2026
    /\ ranking.subject_features.year_built = QInt(2026)
    /\ \E i, j \in 1..Len(comparable_sales) :
          /\ comparable_sales[i] = ListingEmpty
          /\ ranking.comparable_features[i].sqft = QInt(0)
          /\ ranking.comparable_features[j].has_pool = QInt(1)

\* the subject's square footage as the record gives it, 1 when it gives none
StatedSqft ==
    IF "sqft" \in DOMAIN subject_home THEN subject_home["sqft"]
    ELSE IF "square_footage" \in DOMAIN subject_home THEN subject_home["square_footage"]
    ELSE 1

\* reported is quotient rounded to two decimals
RoundedToCents(reported, quotient) == QLe(QAbs(QSub(reported, quotient)), Q(1, 200))

\* C14 as stated: the reported price_per_sqft is recommended_price divided by
\* the subject's square footage, a square footage of 0 or a missing one
\* counting as 1.
C14_PricePerSqftFloored ==
    pc = "estimated" =>
        RoundedToCents(price_recommendation.price_per_sqft,
                       QDiv(QInt(price_recommendation.recommended_price),
                            QInt(IF StatedSqft = 0 THEN 1 ELSE StatedSqft)))

\* C14: the reported price_per_sqft is recommended_price divided by the
\* subject's square footage (rounded to two decimals) when that is positive,
\* a missing square footage counting as 1, and is 0 when the subject's
\* square footage is 0 or negative; the division never fails.
C14_PricePerSqft ==
    pc = "estimated" =>
        IF StatedSqft > 0
        THEN RoundedToCents(price_recommendation.price_per_sqft,
                            QDiv(QInt(price_recommendation.recommended_price),
                                 QInt(StatedSqft)))
        ELSE price_recommendation.price_per_sqft = QInt(0)

\* an estimate for a subject of square footage 0 with a positive price
C14_Witness ==
    /\ pc = "estimated"
    /\ subject_home = UnsizedSubject
    /\ price_recommendation.recommended_price > 0
    /\ price_recommendation.price_per_sqft = QInt(0)

\* the lists select_top_comparables can return for the arguments of the
\* state when the call runs at date
ResultsAt(date) ==
    {select_top_comparables(subject_home, comparable_sales, num_comps, ranked).result :
        ranked \in RankCandidates(subject_home, comparable_sales, date)}

DateFree ==
    /\ "year_built" \in DOMAIN subject_home
    /\ \A i \in 1..Len(comparable_sales) :
          /\ "year_built" \in DOMAIN comparable_sales[i]
          /\ ParsableDate(comparable_sales[i]) => ExplicitDays(comparable_sales[i])

C17_RangeIntegerAndOrdered ==
    pc = "estimated" =>
        /\ price_recommendation.price_range.low \in Int
        /\ price_recommendation.price_range.high \in Int
        /\ locals.range_pct2 # QInt(0) =>
              price_recommendation.price_range.low < price_recommendation.price_range.high

\* C18: when the price estimate of analyze-home fails, as it does for an
\* empty comparable_sales, the response is the structured error alone:
\* success false and the error message, with no condition_summary,
\* top_comparables or price_recommendation of the steps completed before.
C18_FailureWithoutPartialResults ==
    (pc = "responded" /\ raised # "") =>
        /\ response.status = 500
        /\ DOMAIN response.body = {"success", "error"}
        /\ response.body.success = FALSE
        /\ response.body.error = "No comparables provided for price estimation"

\* a request with no comparable sales: the analysis and the selection have
\* completed, the estimate has raised, and the response is the error
C18_Witness ==
    /\ pc = "responded"
    /\ comparable_sales = <<>>
    /\ condition_summary.overall_condition = "Poor"
    /\ top_comparables = <<>>
    /\ raised = "ValueError"
    /\ response.body.success = FALSE

\* the results invocation c can produce when it runs alone
AloneResults(c) ==
    IF c.kind = "select"
    THEN {select_top_comparables(c.subject_home, c.comparable_sales, c.num_comps,
                                 ranked).result :
             ranked \in RankCandidates(c.subject_home, c.comparable_sales, c.now)}
    ELSE {[raised |-> r.raised, value |-> r.value] :
             r \in estimate_price(c.subject_home, c.comparable_sales, c.condition_summary)}

\* C19: however two invocations on the shared services interleave, each
\* returns a result it can produce running alone on its own arguments.
C19_NoInterference ==
    \A id \in DOMAIN calls :
        calls[id].pc = "done" =>
            (IF calls[id].kind = "select" THEN calls[id].result
             ELSE [raised |-> calls[id].raised, value |-> calls[id].result])
                \in AloneResults(calls[id])

\* two selections over different pools, both returned, each having run steps
\* while the other was between its entry and its return
C19_Witness ==
    /\ DOMAIN calls = CallIds
    /\ \A id \in CallIds :
          /\ calls[id].kind = "select" /\ calls[id].pc = "done"
          /\ calls[id].overlapped
          /\ Len(calls[id].result) >= 2
    /\ calls[1].comparable_sales # calls[2].comparable_sales

\* C20: candidates at equal distance from the subject are ranked in the order
\* of the pool, the results are the first of the ranking, and so of two such
\* candidates the later is never selected without the earlier.
C20_TiesInPoolOrder ==
    Selected =>
        /\ \A i, j \in 1..Len(ranking.distances) :
              (i < j /\ ranking.distances[i].distance = ranking.distances[j].distance)
                  => ranking.distances[i].idx < ranking.distances[j].idx
        /\ Len(top_comparables) <= Len(ranking.distances)
        /\ \A j \in 1..Len(top_comparables) :
              Candidate(top_comparables[j])
                  = Candidate(comparable_sales[ranking.distances[j].idx])

\* the cut falls between two candidates at equal distance
C20_Witness ==
    /\ Selected
    /\ Len(top_comparables) >= 1
    /\ Len(top_comparables) < Len(comparable_sales)
    /\ ranking.distances[Len(top_comparables)].distance
           = ranking.distances[Len(top_comparables) + 1].distance

Estimated == pc = "estimated" /\ raised = ""

\* the value of an entry of the feature adjustments, 0 for an absent one
Entry(key) ==
    IF key \in DOMAIN locals.feature_adjustments
    THEN locals.feature_adjustments[key].q ELSE QInt(0)

\* C21: total_adjustment is the condition adjustment plus the pool, garage
\* and age entries that are present, and recommended_price is
\* base_price * (1 + total_adjustment) truncated to an integer.
C21_FinalPriceTruncated ==
    Estimated =>
        /\ locals.total_adjustment.q =
              QAdd(locals.condition_adjustment.q,
                   QAdd(Entry("pool"), QAdd(Entry("garage"), Entry("age"))))
        /\ price_recommendation.recommended_price =
              IntTrunc(QMul(locals.base_price.q,
                            QAdd(QInt(1), locals.total_adjustment.q)))

\* the sale prices _calculate_price_range reads, and their mean
RawPrices == [i \in 1..Len(comparable_sales) |->
                 QInt(Get(comparable_sales[i], "sale_price", 0))]

\* clamp(x, 0.05, 0.15) on squares
ClampSquared(x2) ==
    IF QLt(x2, Q(25, 10000)) THEN Q(25, 10000)
    ELSE IF QLt(Q(225, 10000), x2) THEN Q(225, 10000)
    ELSE x2

\* m is a * (1 + sign * pct) truncated, for a >= 0 and pct given by its
\* square: with pct itself where it is rational, else by comparing squares
TruncatedScale(m, a, pct2, sign) ==
    LET Square(d) == QInt(d * d)
    IN  IF RationalRoot(pct2) # <<>>
        THEN m = IntTrunc(QMul(QInt(a), QAdd(QInt(1), QMul(QInt(sign),
                                                          RationalRoot(pct2)))))
        ELSE IF sign > 0
        THEN /\ m >= a
             /\ QLe(Square(m - a), QMul(Square(a), pct2))
             /\ QLt(QMul(Square(a), pct2), Square(m + 1 - a))
        ELSE /\ m <= a
             /\ QLe(QMul(Square(a), pct2), Square(a - m))
             /\ (a - m - 1 < 0 \/ QLt(Square(a - m - 1), QMul(Square(a), pct2)))

\* C22: range_pct is 0.10 for fewer than 2 comparables and otherwise the
\* sample standard deviation of the raw sale prices over their mean, clamped
\* to [0.05, 0.15]; low and high are price * (1 - range_pct) and
\* price * (1 + range_pct) truncated.
C22_PriceRange ==
    Estimated =>
        /\ Len(comparable_sales) < 2 => locals.range_pct2 = Q(1, 100)
        /\ (Len(comparable_sales) >= 2 /\ QLt(QInt(0), Mean(RawPrices))) =>
              locals.range_pct2 =
                  ClampSquared(QDiv(SampleVariance(RawPrices),
                                    QMul(Mean(RawPrices), Mean(RawPrices))))
        /\ QLe(Q(25, 10000), locals.range_pct2)
        /\ QLe(locals.range_pct2, Q(225, 10000))
        /\ price_recommendation.recommended_price >= 0 =>
              /\ TruncatedScale(price_recommendation.price_range.low,
                                price_recommendation.recommended_price,
                                locals.range_pct2, -1)
              /\ TruncatedScale(price_recommendation.price_range.high,
                                price_recommendation.recommended_price,
                                locals.range_pct2, 1)

\* the mean similarity score of the comparables, a missing score counting as 0
MeanSimilarity ==
    QDiv(QSum([i \in 1..Len(comparable_sales) |->
                  Get(comparable_sales[i], "similarity_score", QInt(0))]),
         QInt(Len(comparable_sales)))

\* 2 for High, 1 for Medium, 0 for Low
SimilarityLevel ==
    IF QLe(QInt(75), MeanSimilarity) THEN 2
    ELSE IF QLe(QInt(60), MeanSimilarity) THEN 1
    ELSE 0

HasConcerns == Get(condition_summary, "concerns", <<>>) # <<>>

\* C23: with 3 or more comparables the confidence is the level of the mean
\* similarity score (High from 75, Medium from 60, else Low), one level lower
\* (not below Low) when the condition summary lists concerns; the confidence
\* is always one of Low, Medium, High.
C23_ConfidenceLevels ==
    Estimated =>
        /\ price_recommendation.confidence \in {"Low", "Medium", "High"}
        /\ Len(comparable_sales) >= 3 =>
              price_recommendation.confidence =
                  <<"Low", "Medium", "High">>[
                      Max(0, SimilarityLevel - (IF HasConcerns THEN 1 ELSE 0)) + 1]

\* three comparables of mean similarity 75 or more and a summary with
\* concerns: High lowered to Medium
C23_Witness ==
    /\ Estimated
    /\ Len(comparable_sales) >= 3
    /\ SimilarityLevel = 2
    /\ HasConcerns
    /\ price_recommendation.confidence = "Medium"

\* the age of a home in 2025, a home without year_built counting as built in 2000
Age(home) == 2025 - Get(home, "year_built", 2000)

\* (average comparable age - subject age) / 10 * 0.01
AgeRate ==
    QMul(QDiv(QSub(QDiv(QSum([i \in 1..Len(comparable_sales) |->
                                 QInt(Age(comparable_sales[i]))]),
                        QInt(Len(comparable_sales))),
                   QInt(Age(subject_home))),
              QInt(10)),
         Q(1, 100))

\* clamp(AgeRate, -0.05, +0.05)
ExpectedAgeAdjustment == QMax(Q(-5, 100), QMin(Q(5, 100), AgeRate))

\* C24: the age adjustment is (average comparable age - subject age) / 10 *
\* 0.01 clamped to [-0.05, +0.05]; the feature adjustments have an 'age' entry
\* exactly when its magnitude is strictly above 0.005, and the entry is that
\* adjustment: within [-0.05, +0.05], positive for a subject newer than the
\* average of its comparables.
C24_AgeAdjustment ==
    Estimated =>
        /\ "age" \in DOMAIN locals.feature_adjustments
              <=> QLt(Q(5, 1000), QAbs(ExpectedAgeAdjustment))
        /\ "age" \in DOMAIN locals.feature_adjustments =>
              /\ locals.feature_adjustments["age"].q = ExpectedAgeAdjustment
              /\ QLe(Q(-5, 100), locals.feature_adjustments["age"].q)
              /\ QLe(locals.feature_adjustments["age"].q, Q(5, 100))
              /\ QLt(QInt(0), locals.feature_adjustments["age"].q)
                    <=> QLt(QInt(Len(comparable_sales) * Age(subject_home)),
                            QSum([j \in 1..Len(comparable_sales) |->
                                     QInt(Age(comparable_sales[j]))]))

\* a subject 5 years newer than its comparable: an adjustment of exactly
\* 0.005, and no entry
C24_Witness ==
    /\ Estimated
    /\ ExpectedAgeAdjustment = Q(5, 1000)
    /\ "age" \notin DOMAIN locals.feature_adjustments

\* the record has a garage: the 'garage' flag of the sample records or a
\* positive count of garage spaces, as the loader records it
GaragePresent(record) ==
    Truthy(Get(record, "garage", FALSE)) \/ Get(record, "garage_spaces", 0) > 0

WithGarage(comparables) ==
    {i \in 1..Len(comparables) : GaragePresent(comparables[i])}

\* the entry of a majority rule: amount when the subject has the feature and
\* strictly fewer than half of the n comparables do, -amount when it has not
\* and strictly more than half do, else none
MajorityEntry(key, subject_has, with, n, amount) ==
    IF subject_has /\ 2 * with < n
    THEN key \in DOMAIN locals.feature_adjustments
            /\ locals.feature_adjustments[key].q = amount
    ELSE IF ~subject_has /\ 2 * with > n
    THEN key \in DOMAIN locals.feature_adjustments
            /\ locals.feature_adjustments[key].q = QNeg(amount)
    ELSE key \notin DOMAIN locals.feature_adjustments

\* C25: the garage adjustment is +0.02 when the subject has a garage and
\* strictly fewer than half of the comparables do, -0.02 when the subject has
\* none and strictly more than half do, and otherwise there is no 'garage'
\* entry, whatever the pool entry is.
C25_GarageMajorityRule ==
    Estimated =>
        MajorityEntry("garage", GaragePresent(subject_home),
                      Cardinality(WithGarage(comparable_sales)),
                      Len(comparable_sales), Q(2, 100))

\* the size a record states: 'sqft', else 'square_footage', else none (0)
RecordSize(record) == Get(record, "sqft", Get(record, "square_footage", 0))

\* the positive sale prices of the comparables, in the order of the list
PositivePrices ==
    LET priced == SelectSeq(comparable_sales, HasPrice)
    IN  [i \in 1..Len(priced) |-> QInt(priced[i].sale_price)]

\* C26: when no comparable has both a positive size and a positive sale
\* price, the base price is the unweighted mean of the sale prices of the
\* comparables, 0 when none of them has one; and estimate_price raises for
\* no list of comparables but the empty one.
C26_FallbackBasePrice ==
    /\ pc = "failed" => comparable_sales = <<>>
    /\ (/\ Estimated
        /\ \A i \in 1..Len(comparable_sales) :
              ~(RecordSize(comparable_sales[i]) > 0 /\ HasPrice(comparable_sales[i])))
          => locals.base_price.q =
                IF PositivePrices = <<>> THEN QInt(0)
                ELSE QDiv(QSum(PositivePrices), QInt(Len(PositivePrices)))

StatesSize(record) == "sqft" \in DOMAIN record \/ "square_footage" \in DOMAIN record

\* the size under 'sqft' when the record has that field, else the one under
\* 'square_footage'
PreferredSize(record) ==
    IF "sqft" \in DOMAIN record THEN record["sqft"] ELSE record["square_footage"]

\* C27: the sqft feature of a record is its 'sqft' field, else its
\* 'square_footage' field, else 0; and the base price of an estimate from one
\* comparable is its sale price over its size times the size of the subject,
\* both sizes read from 'sqft', else from 'square_footage'.
C27_SizeFields ==
    /\ Selected =>
          \A i \in 1..Len(Extracted) :
              Extracted[i].features.sqft =
                  IF StatesSize(Extracted[i].record)
                  THEN QInt(PreferredSize(Extracted[i].record)) ELSE QInt(0)
    /\ (/\ Estimated
        /\ Len(comparable_sales) = 1
        /\ StatesSize(subject_home) /\ PreferredSize(subject_home) > 0
        /\ StatesSize(comparable_sales[1]) /\ PreferredSize(comparable_sales[1]) > 0
        /\ HasPrice(comparable_sales[1]))
          => locals.base_price.q =
                QMul(Q(comparable_sales[1].sale_price, PreferredSize(comparable_sales[1])),
                     QInt(PreferredSize(subject_home)))

\* an estimate for a subject that states two different sizes, priced by the
\* one under 'sqft'
C27_Witness ==
    /\ Estimated
    /\ subject_home = TwoSizeSubject
    /\ comparable_sales = <<ListingTwin>>
    /\ locals.base_price.q = QInt(100)

\* the positions of the pool that the results were taken from
SelectedPositions == {ranking.distances[j].idx : j \in 1..Len(top_comparables)}

\* the weighted distance measured for the candidate at a position of the pool
DistanceOf(position) ==
    ranking.distances[CHOOSE j \in 1..Len(ranking.distances) :
                          ranking.distances[j].idx = position].distance

\* C28: for 0 <= k <= pool size the k results are taken from k distinct
\* positions of the pool, and no candidate left out is nearer to the subject
\* than a selected one.
C28_KNearest ==
    (Selected /\ num_comps >= 0 /\ num_comps <= Len(comparable_sales)) =>
        /\ Len(top_comparables) = num_comps
        /\ {ranking.distances[j].idx : j \in 1..Len(ranking.distances)}
              = 1..Len(comparable_sales)
        /\ \A j \in 1..Len(top_comparables) :
              Candidate(top_comparables[j])
                  = Candidate(comparable_sales[ranking.distances[j].idx])
        /\ Cardinality(SelectedPositions) = num_comps
        /\ \A a \in SelectedPositions :
              \A b \in (1..Len(comparable_sales)) \ SelectedPositions :
                  ~Nearer(DistanceOf(b), DistanceOf(a))

\* a selection that leaves out a candidate strictly farther than every
\* selected one, the first of the pool among those left out
C28_Witness ==
    /\ Selected
    /\ num_comps >= 1 /\ num_comps < Len(comparable_sales)
    /\ 1 \notin SelectedPositions
    /\ \A a \in SelectedPositions : Nearer(DistanceOf(a), DistanceOf(1))

\* the pool rule of the regressor counts the record as having a pool
CountedWithPool(record) == FlagAverage(<<record>>, "pool") = QInt(1)

\* C29: the has_pool feature extracted from a record is 1 exactly when the
\* pool rule of the regressor counts the record as having a pool, and a
\* subject with a private pool of whose comparables fewer than half have a
\* pool receives the pool adjustment of +0.03.
C29_PoolAgreement ==
    /\ Selected =>
          \A i \in 1..Len(Extracted) :
              Extracted[i].features.has_pool = QInt(1)
                  <=> CountedWithPool(Extracted[i].record)
    /\ (/\ Estimated
        /\ Truthy(Get(subject_home, "has_private_pool", FALSE))
        /\ 2 * Cardinality(WithPool(comparable_sales)) < Len(comparable_sales))
          => /\ "pool" \in DOMAIN locals.feature_adjustments
             /\ locals.feature_adjustments["pool"].q = Q(3, 100)

\* the condition score of the summary, 70 when it has none
Score == Get(condition_summary, "condition_score", QInt(70))

Within(x, low, high) == QLe(low, x) /\ QLe(x, high)

\* C30: for a condition score in 0..100, whatever the label, the condition
\* adjustment lies in [-0.17, +0.11], the feature adjustments sum to a value
\* in [-0.10, +0.10] and the total adjustment lies in [-0.27, +0.21]; and
\* recommended_price, base_price and both ends of the price range are
\* non-negative (the sale prices of the comparables being non-negative).
C30_AdjustmentsBounded ==
    (Estimated /\ Within(Score, QInt(0), QInt(100))) =>
        /\ Within(locals.condition_adjustment.q, Q(-17, 100), Q(11, 100))
        /\ Within(QAdd(Entry("pool"), QAdd(Entry("garage"), Entry("age"))),
                  Q(-10, 100), Q(10, 100))
        /\ Within(locals.total_adjustment.q, Q(-27, 100), Q(21, 100))
        /\ price_recommendation.recommended_price >= 0
        /\ price_recommendation.base_price >= 0
        /\ price_recommendation.price_range.low >= 0
        /\ price_recommendation.price_range.high >= 0

====
